---- MODULE Spec2Model ----
(***************************************************************************)
(* ELL emitters: IRRuntime (IRRuntime.cpp).                                *)
(*                                                                         *)
(* Part 1 models the provider: the requests IRRuntime answers, the module  *)
(* symbol table they declare and define functions in, the stack of open    *)
(* function bodies, and the provider's cached GetTime handle.  Every       *)
(* handler is split at the points where it opens or closes a function      *)
(* body, so that the open bodies are visible between the steps.            *)
(*                                                                         *)
(* Part 2 models the code the provider emits (the noblas GEMV and GEMM     *)
(* kernels) as operators that run the emitted loops on integer buffers.    *)
(***************************************************************************)
EXTENDS Integers, Sequences, FiniteSets, TLC

\* Number of provider requests issued in one behaviour.
MaxRequests == 2

\* Two IRRuntime objects constructed over the same IRModuleEmitter.
Providers == {"r1", "r2"}

\* IRModuleEmitter::GetModuleName() of the one module under construction.
ModuleName == "ELL"

\* The VariableType values a caller may pass to GetTanhFunction.
VariableTypes == {"Int32", "Float", "Double"}

\* The element types of the time structure's first field.
TimespecFieldTypes == {"Int32", "Int64"}

PointerTo(t) == t \o "Pointer"

FunctionType(ret, args) == [ret |-> ret, args |-> args]

\* nullptr as an LLVMFunction.
NoFunction == [name |-> "", body |-> 0]

dotProductFloatName == "DotProductFloat"
dotProductIntName == "DotProductInt"
getTimeFunctionName == "GetTime"

GetNamespacePrefix == ModuleName

\* The function the caller of GetCurrentTime(function) is emitting.
CallerFunctionName == "caller"

VARIABLES
    isWindows,     \* targetDevice.IsWindows()
    tmFieldType,   \* type of field 0 of _posixRuntime.GetTimespecType()
    hasClock,      \* whether the module can declare the clock-read symbol
    numBits,       \* targetDevice.numBits
    functions,     \* the module: name -> [sig, bodies authored under the name]
    open,          \* the names of the function bodies that are open, innermost last
    cache,         \* _pGetCurrentTimeFunction of each provider
    frame,         \* the running handler: its position and its local function
    requests,      \* number of requests issued
    last,          \* the request issued last: [op, rt, arg]
    result,        \* what the last request returned (or "pending")
    returned,      \* history: the handles each provider returned for each request
    authored,      \* history: the bodies each provider opened, by name
    kernel         \* part 2: the run of an emitted kernel

vars == <<isWindows, tmFieldType, hasClock, numBits, functions, open, cache, frame,
          requests, last, result, returned, authored, kernel>>

target == <<isWindows, tmFieldType, hasClock, numBits>>

-----------------------------------------------------------------------------
(* The module and function builder (IRModuleEmitter)                       *)

\* llvm::Module::getFunction / IRModuleEmitter::GetFunction: the function of
\* that name as it stands now, nullptr when the module has none.
GetFunction(fs, name) ==
    IF name \in DOMAIN fs THEN [name |-> name, body |-> fs[name].bodies]
    ELSE NoFunction

\* IRModuleEmitter::DeclareFunction / llvm::Module::getOrInsertFunction: the
\* first declaration of a name fixes its type; declaring it again changes
\* nothing.  The clock-read symbol can be declared only on a platform that
\* has one.
DeclareFunction(fs, name, type) ==
    IF name \in DOMAIN fs THEN fs
    ELSE IF name = "clock_gettime" /\ ~hasClock THEN fs
    ELSE (name :> [sig |-> type, bodies |-> 0]) @@ fs

\* IRModuleEmitter::BeginFunction: a body of the given type is opened under
\* the name (the name is entered in the module if it is new).
BeginFunction(fs, name, type) ==
    IF name \in DOMAIN fs
    THEN [fs EXCEPT ![name] = [sig |-> type, bodies |-> @.bodies + 1]]
    ELSE (name :> [sig |-> type, bodies |-> 1]) @@ fs

\* IRModuleEmitter::EndFunction: the innermost open body is closed.
EndFunction(stack) == SubSeq(stack, 1, Len(stack) - 1)

Idle == [pc |-> "idle", fn |-> NoFunction]

-----------------------------------------------------------------------------
(* Signatures                                                              *)

\* NamedVariableTypeList of the dot product functions.
DotProductType(ptr) == FunctionType("Void", <<"Int32", ptr, ptr, ptr>>)

\* gettimeType of GetCurrentTimeFunction: int32 (int32, timespec* ).
PreDeclaredClockType == FunctionType("Int32", <<"Int32", "TimespecPointer">>)

\* gettimeType of ResolveCurrentTimeFunction: intType is the type of the
\* time structure's first field.
PosixClockType(intType) == FunctionType(intType, <<"Int32", "TimespecPointer">>)

\* The type BeginFunction("clock_gettime", int32Type, args) is given.
WindowsClockType == FunctionType("Int32", <<"Int32", "TimespecPointer">>)

qpcProto == FunctionType("Int32", <<PointerTo("Int64")>>)

GetTimeType == FunctionType("Double", <<>>)

TanhType(valueType) == FunctionType(valueType, <<valueType>>)

GEMVArgTypes(t) ==
    <<"Int32", "Int32", "Int32", "Int32", t, PointerTo(t), "Int32",
      PointerTo(t), "Int32", t, PointerTo(t), "Int32">>

GEMMArgTypes(t) ==
    <<"Int32", "Int32", "Int32", "Int32", "Int32", "Int32", t, PointerTo(t),
      "Int32", PointerTo(t), "Int32", t, PointerTo(t), "Int32">>

\* The four kernels: s/d is the element type, gemv/gemm the operation.
Kernels == {"sgemv", "dgemv", "sgemm", "dgemm"}

KernelElementType(k) == IF k \in {"sgemv", "sgemm"} THEN "Float" ELSE "Double"

KernelType(k) ==
    FunctionType("Int32",
                 IF k \in {"sgemv", "dgemv"} THEN GEMVArgTypes(KernelElementType(k))
                 ELSE GEMMArgTypes(KernelElementType(k)))

BlasName(k) == "cblas_" \o k
NoBlasName(k) == "noblas_" \o k

DotProductFloatFunctionName == GetNamespacePrefix \o "_" \o dotProductFloatName
DotProductIntFunctionName == GetNamespacePrefix \o "_" \o dotProductIntName
GetTimeFunctionName == GetNamespacePrefix \o "_" \o getTimeFunctionName

-----------------------------------------------------------------------------
(* Requests                                                                *)

UseBlas == {"blas", "noblas"}

RequestKeys ==
    {<<"GetDotProductFloatFunction", "">>, <<"GetDotProductIntFunction", "">>,
     <<"GetCurrentTimeFunction", "">>, <<"GetOpenBLASGetNumThreadsFunction", "">>,
     <<"GetOpenBLASSetNumThreadsFunction", "">>}
    \cup {<<"GetTanhFunction", t>> : t \in VariableTypes}
    \cup {<<k, u>> : k \in Kernels, u \in UseBlas}

\* GetCurrentTime(function) resolves the same function GetCurrentTimeFunction does.
KeyOf(req) ==
    IF req.op = "GetCurrentTime" THEN <<"GetCurrentTimeFunction", "">>
    ELSE <<req.op, req.arg>>

AuthoredNames ==
    {DotProductFloatFunctionName, DotProductIntFunctionName, GetTimeFunctionName,
     "clock_gettime"} \cup {NoBlasName(k) : k \in Kernels}

\* A request is issued: the handler starts running.
Start(op, p, arg) ==
    /\ frame = Idle
    /\ requests < MaxRequests
    /\ requests' = requests + 1
    /\ last' = [op |-> op, rt |-> p, arg |-> arg]

\* The handler returns function h to its caller.
Return(op, p, arg, h) ==
    /\ frame' = Idle
    /\ result' = [kind |-> IF op = "GetCurrentTime" THEN "value" ELSE "function",
                  fn |-> h]
    /\ returned' = [returned EXCEPT ![p][KeyOf([op |-> op, arg |-> arg])] = @ \cup {h}]

\* The handler throws EmitterException(EmitterError::functionNotFound).
Throw ==
    /\ frame' = Idle
    /\ result' = [kind |-> "functionNotFound", fn |-> NoFunction]
    /\ UNCHANGED returned

\* The handler opened a body named name and goes on emitting it.
Opened(p, name, pc) ==
    /\ open' = Append(open, name)
    /\ authored' = [authored EXCEPT ![p][name] = @ + 1]
    /\ frame' = [pc |-> pc, fn |-> GetFunction(functions', name)]
    /\ result' = [kind |-> "pending", fn |-> NoFunction]
    /\ UNCHANGED returned

-----------------------------------------------------------------------------
(* The caller's own function                                               *)

CallerBeginFunction ==
    /\ frame = Idle
    /\ CallerFunctionName \notin DOMAIN functions
    /\ functions' = BeginFunction(functions, CallerFunctionName, FunctionType("Void", <<>>))
    /\ open' = Append(open, CallerFunctionName)
    /\ UNCHANGED <<target, cache, frame, requests, last, result, returned, authored, kernel>>

CallerEndFunction ==
    /\ frame = Idle
    /\ open # <<>>
    /\ open' = EndFunction(open)
    /\ UNCHANGED <<target, functions, cache, frame, requests, last, result, returned,
                   authored, kernel>>

-----------------------------------------------------------------------------
(* GetDotProductFloatFunction, GetDotProductIntFunction                    *)

EmitDotProductBegin(op, p, name, ptr) ==
    /\ Start(op, p, "")
    /\ functions' = BeginFunction(functions, name, DotProductType(ptr))
    /\ Opened(p, name, "dot_body")
    /\ UNCHANGED <<target, cache, kernel>>

GetDotProductFloatFunction(p) ==
    EmitDotProductBegin("GetDotProductFloatFunction", p, DotProductFloatFunctionName,
                        "DoublePointer")

\* Mutant: the integer dot product is emitted under the name of the
\* floating-point one.
GetDotProductIntFunction_FloatName(p) ==
    EmitDotProductBegin("GetDotProductIntFunction", p, DotProductFloatFunctionName,
                        "Int32Pointer")

GetDotProductIntFunction(p) ==
    EmitDotProductBegin("GetDotProductIntFunction", p, DotProductIntFunctionName,
                        "Int32Pointer")

\* function.DotProduct(...); function.Return(); _module.EndFunction();
\* return function.GetFunction();
DotProductEnd ==
    /\ frame.pc = "dot_body"
    /\ open' = EndFunction(open)
    /\ Return(last.op, last.rt, last.arg, frame.fn)
    /\ UNCHANGED <<target, functions, cache, requests, last, authored, kernel>>

-----------------------------------------------------------------------------
(* GetTanhFunction                                                         *)

\* Mutant: the switch on argType is missing, every type is declared as tanhf.
GetTanhFunction_NoTypeCheck(p, argType) ==
    /\ Start("GetTanhFunction", p, argType)
    /\ LET funcName == IF argType = "Double" THEN "tanh" ELSE "tanhf" IN
       /\ functions' = DeclareFunction(functions, funcName, TanhType(argType))
       /\ Return("GetTanhFunction", p, argType, GetFunction(functions', funcName))
    /\ UNCHANGED <<target, open, cache, authored, kernel>>

GetTanhFunction(p, argType) ==
    /\ Start("GetTanhFunction", p, argType)
    /\ IF argType \notin {"Float", "Double"}
       THEN /\ Throw
            /\ UNCHANGED functions
       ELSE LET funcName == IF argType = "Double" THEN "tanh" ELSE "tanhf" IN
            /\ functions' = DeclareFunction(functions, funcName, TanhType(argType))
            /\ Return("GetTanhFunction", p, argType, GetFunction(functions', funcName))
    /\ UNCHANGED <<target, open, cache, authored, kernel>>

-----------------------------------------------------------------------------
(* GetSGEMVFunction, GetDGEMVFunction, GetSGEMMFunction, GetDGEMMFunction  *)

\* Mutant: the lookup of the fallback kernel accepts the external symbol of
\* the same operation.
GetKernelFunction_SharedLookup(p, k, useBlas) ==
    /\ Start(k, p, useBlas)
    /\ IF useBlas = "blas"
       THEN /\ functions' = DeclareFunction(functions, BlasName(k), KernelType(k))
            /\ Return(k, p, useBlas, GetFunction(functions', BlasName(k)))
            /\ UNCHANGED <<open, authored>>
       ELSE IF GetFunction(functions, BlasName(k)) # NoFunction
       THEN /\ Return(k, p, useBlas, GetFunction(functions, BlasName(k)))
            /\ UNCHANGED <<functions, open, authored>>
       ELSE IF GetFunction(functions, NoBlasName(k)) # NoFunction
       THEN /\ Return(k, p, useBlas, GetFunction(functions, NoBlasName(k)))
            /\ UNCHANGED <<functions, open, authored>>
       ELSE /\ functions' = BeginFunction(functions, NoBlasName(k), KernelType(k))
            /\ Opened(p, NoBlasName(k), "kernel_body")
    /\ UNCHANGED <<target, cache, kernel>>

GetKernelFunction(p, k, useBlas) ==
    /\ Start(k, p, useBlas)
    /\ IF useBlas = "blas"
       THEN /\ functions' = DeclareFunction(functions, BlasName(k), KernelType(k))
            /\ Return(k, p, useBlas, GetFunction(functions', BlasName(k)))
            /\ UNCHANGED <<open, authored>>
       ELSE IF GetFunction(functions, NoBlasName(k)) # NoFunction
       THEN /\ Return(k, p, useBlas, GetFunction(functions, NoBlasName(k)))
            /\ UNCHANGED <<functions, open, authored>>
       ELSE /\ functions' = BeginFunction(functions, NoBlasName(k), KernelType(k))
            /\ Opened(p, NoBlasName(k), "kernel_body")
    /\ UNCHANGED <<target, cache, kernel>>

GetSGEMVFunction(p, useBlas) == GetKernelFunction(p, "sgemv", useBlas)
GetDGEMVFunction(p, useBlas) == GetKernelFunction(p, "dgemv", useBlas)
GetSGEMMFunction(p, useBlas) == GetKernelFunction(p, "sgemm", useBlas)
GetDGEMMFunction(p, useBlas) == GetKernelFunction(p, "dgemm", useBlas)

\* EmitGEMVFunction / EmitGEMMFunction after BeginFunction: the loops are
\* emitted, module.EndFunction(); return function.GetFunction();
EmitKernelEnd ==
    /\ frame.pc = "kernel_body"
    /\ open' = EndFunction(open)
    /\ Return(last.op, last.rt, last.arg, frame.fn)
    /\ UNCHANGED <<target, functions, cache, requests, last, authored, kernel>>

-----------------------------------------------------------------------------
(* GetCurrentTimeFunction, ResolveCurrentTimeFunction, GetCurrentTime      *)

\* GetCurrentTimeFunction with a filled cache returns it.  With an empty
\* cache it declares clock_gettime and runs ResolveCurrentTimeFunction up
\* to the point where that opens the body of clock_gettime (Windows) or has
\* declared and looked up clock_gettime (elsewhere).
CurrentTimeFunctionEntry(op, p) ==
    /\ Start(op, p, "")
    /\ IF cache[p] # NoFunction
       THEN /\ Return(op, p, "", cache[p])
            /\ UNCHANGED <<functions, open, authored>>
       ELSE LET declared == DeclareFunction(functions, "clock_gettime", PreDeclaredClockType) IN
            IF isWindows
            THEN LET qpc == DeclareFunction(declared, "QueryPerformanceCounter", qpcProto)
                     qpf == DeclareFunction(qpc, "QueryPerformanceFrequency", qpcProto)
                 IN /\ functions' = BeginFunction(qpf, "clock_gettime", WindowsClockType)
                    /\ Opened(p, "clock_gettime", "clock_body")
            ELSE /\ functions' = DeclareFunction(declared, "clock_gettime",
                                                 PosixClockType(tmFieldType))
                 /\ frame' = [pc |-> "resolved",
                              fn |-> GetFunction(functions', "clock_gettime")]
                 /\ result' = [kind |-> "pending", fn |-> NoFunction]
                 /\ UNCHANGED <<open, authored, returned>>
    /\ UNCHANGED <<target, cache, kernel>>

GetCurrentTimeFunction(p) == CurrentTimeFunctionEntry("GetCurrentTimeFunction", p)

\* GetCurrentTime(function): function is the caller's open emitter.
GetCurrentTime(p) ==
    /\ open # <<>>
    /\ CurrentTimeFunctionEntry("GetCurrentTime", p)

\* Mutant: the body of clock_gettime is left open.
ResolveCurrentTimeFunctionEnd_NoEnd ==
    /\ frame.pc = "clock_body"
    /\ frame' = [pc |-> "resolved", fn |-> frame.fn]
    /\ UNCHANGED <<target, functions, open, cache, requests, last, result, returned,
                   authored, kernel>>

\* ResolveCurrentTimeFunction, Windows branch, after BeginFunction: the body
\* is emitted, _module.EndFunction(); return function;
ResolveCurrentTimeFunctionEnd ==
    /\ frame.pc = "clock_body"
    /\ open' = EndFunction(open)
    /\ frame' = [pc |-> "resolved", fn |-> frame.fn]
    /\ UNCHANGED <<target, functions, cache, requests, last, result, returned,
                   authored, kernel>>

\* Mutant: the nullptr check is missing, the missing function is cached
\* and returned.
CurrentTimeFunctionResolved_NoCheck ==
    /\ frame.pc = "resolved"
    /\ IF frame.fn # NoFunction
       THEN /\ functions' = BeginFunction(functions, GetTimeFunctionName, GetTimeType)
            /\ Opened(last.rt, GetTimeFunctionName, "gettime_body")
            /\ UNCHANGED cache
       ELSE /\ Return(last.op, last.rt, last.arg, frame.fn)
            /\ UNCHANGED <<functions, open, authored, cache>>
    /\ UNCHANGED <<target, requests, last, kernel>>

\* GetCurrentTimeFunction after ResolveCurrentTimeFunction returned.
CurrentTimeFunctionResolved ==
    /\ frame.pc = "resolved"
    /\ IF frame.fn # NoFunction
       THEN /\ functions' = BeginFunction(functions, GetTimeFunctionName, GetTimeType)
            /\ Opened(last.rt, GetTimeFunctionName, "gettime_body")
       ELSE /\ Throw
            /\ UNCHANGED <<functions, open, authored>>
    /\ UNCHANGED <<target, cache, requests, last, kernel>>

\* Mutant: the function is returned without being stored in
\* _pGetCurrentTimeFunction.
CurrentTimeFunctionEnd_NoStore ==
    /\ frame.pc = "gettime_body"
    /\ open' = EndFunction(open)
    /\ Return(last.op, last.rt, last.arg, frame.fn)
    /\ UNCHANGED <<target, functions, cache, requests, last, authored, kernel>>

\* The body of <module>_GetTime is emitted, _module.EndFunction();
\* _pGetCurrentTimeFunction = function.GetFunction(); return it.
CurrentTimeFunctionEnd ==
    /\ frame.pc = "gettime_body"
    /\ open' = EndFunction(open)
    /\ cache' = [cache EXCEPT ![last.rt] = frame.fn]
    /\ Return(last.op, last.rt, last.arg, frame.fn)
    /\ UNCHANGED <<target, functions, requests, last, authored, kernel>>

-----------------------------------------------------------------------------
(* GetIntType, GetOpenBLASGetNumThreadsFunction,                           *)
(* GetOpenBLASSetNumThreadsFunction                                        *)

\* The values of targetDevice.numBits: 0 when the descriptor gives none.
NumBitsValues == {0, 8, 16, 32, 64}

\* llvm::Type::getIntNTy(context, bits); getIntNTy(context, 32) is getInt32Ty.
IntNTy(bits) == "Int" \o ToString(bits)

\* IRRuntime::GetIntType.
GetIntType == IF numBits # 0 THEN IntNTy(numBits) ELSE "Int32"

\* int openblas_get_num_threads();
GetOpenBLASGetNumThreadsFunction(p) ==
    /\ Start("GetOpenBLASGetNumThreadsFunction", p, "")
    /\ LET functionType == FunctionType(GetIntType, <<>>) IN
       /\ functions' = DeclareFunction(functions, "openblas_get_num_threads", functionType)
       /\ Return("GetOpenBLASGetNumThreadsFunction", p, "",
                 GetFunction(functions', "openblas_get_num_threads"))
    /\ UNCHANGED <<target, open, cache, authored, kernel>>

\* void openblas_set_num_threads(int num_threads);
GetOpenBLASSetNumThreadsFunction(p) ==
    /\ Start("GetOpenBLASSetNumThreadsFunction", p, "")
    /\ LET functionType == FunctionType("Void", <<GetIntType>>) IN
       /\ functions' = DeclareFunction(functions, "openblas_set_num_threads", functionType)
       /\ Return("GetOpenBLASSetNumThreadsFunction", p, "",
                 GetFunction(functions', "openblas_set_num_threads"))
    /\ UNCHANGED <<target, open, cache, authored, kernel>>

\* The provider on a module compiled for a target of any integer width.
InitOpenBLAS ==
    /\ isWindows = FALSE
    /\ tmFieldType = "Int64"
    /\ hasClock = TRUE
    /\ numBits \in NumBitsValues
    /\ functions = <<>>
    /\ open = <<>>
    /\ cache = [p \in Providers |-> NoFunction]
    /\ frame = Idle
    /\ requests = 0
    /\ last = [op |-> "", rt |-> "", arg |-> ""]
    /\ result = [kind |-> "pending", fn |-> NoFunction]
    /\ returned = [p \in Providers |-> [k \in RequestKeys |-> {}]]
    /\ authored = [p \in Providers |-> [n \in AuthoredNames |-> 0]]
    /\ kernel = <<>>

NextOpenBLAS ==
    \/ \E p \in Providers : GetOpenBLASGetNumThreadsFunction(p)
    \/ \E p \in Providers : GetOpenBLASSetNumThreadsFunction(p)

SpecOpenBLAS == InitOpenBLAS /\ [][NextOpenBLAS]_vars

-----------------------------------------------------------------------------

Init ==
    /\ isWindows \in BOOLEAN
    /\ tmFieldType \in TimespecFieldTypes
    /\ hasClock \in (IF isWindows THEN {TRUE} ELSE BOOLEAN)
    /\ numBits = 0
    /\ functions = <<>>
    /\ open = <<>>
    /\ cache = [p \in Providers |-> NoFunction]
    /\ frame = Idle
    /\ requests = 0
    /\ last = [op |-> "", rt |-> "", arg |-> ""]
    /\ result = [kind |-> "pending", fn |-> NoFunction]
    /\ returned = [p \in Providers |-> [k \in RequestKeys |-> {}]]
    /\ authored = [p \in Providers |-> [n \in AuthoredNames |-> 0]]
    /\ kernel = <<>>

Next ==
    \/ CallerBeginFunction
    \/ CallerEndFunction
    \/ \E p \in Providers : GetDotProductFloatFunction(p)
    \/ \E p \in Providers : GetDotProductIntFunction(p)
    \/ DotProductEnd
    \/ \E p \in Providers, t \in VariableTypes : GetTanhFunction(p, t)
    \/ \E p \in Providers, u \in UseBlas : GetSGEMVFunction(p, u)
    \/ \E p \in Providers, u \in UseBlas : GetDGEMVFunction(p, u)
    \/ \E p \in Providers, u \in UseBlas : GetSGEMMFunction(p, u)
    \/ \E p \in Providers, u \in UseBlas : GetDGEMMFunction(p, u)
    \/ EmitKernelEnd
    \/ \E p \in Providers : GetCurrentTimeFunction(p)
    \/ \E p \in Providers : GetCurrentTime(p)
    \/ ResolveCurrentTimeFunctionEnd
    \/ CurrentTimeFunctionResolved
    \/ CurrentTimeFunctionEnd

Spec == Init /\ [][Next]_vars

-----------------------------------------------------------------------------
(* Part 2: the emitted kernels, run on buffers of integers                 *)

\* Largest m, n, k of a run.
MaxDim == 2

\* Largest lda, ldb, ldc, incx, incy of a run.
MaxStride == 2

CblasNoTrans == 111
CblasTrans == 112

\* m, n, k are int32 arguments: negative, zero and positive values.
Dims == -1..MaxDim

\* lda, ldb, ldc, incx, incy are int32 arguments too.
Strides == -1..MaxStride

\* Every index a run within the bounds can form lies in -MaxIndex..MaxIndex.
MaxIndex == MaxDim * MaxStride + MaxDim

\* A buffer argument points into the caller's memory: element 0 is the one
\* it points at, and the elements before and after it are the caller's too.
Indices == (-MaxIndex)..MaxIndex

\* Buffer contents: element i holds ((i + MaxIndex + 1) * seed) mod 7 - 2.
Pattern(seed) == [i \in Indices |-> (((i + MaxIndex + 1) * seed) % 7) - 2]

\* A buffer of elements the kernel never stored.
Garbage == [i \in Indices |-> 9]

\* The values passed for the parameters the kernels do not use.
Unused == {[order |-> 101, alpha |-> 1, beta |-> 0],
           [order |-> 102, alpha |-> 2, beta |-> 1]}

provider == <<isWindows, tmFieldType, hasClock, numBits, functions, open, cache, frame,
              requests, last, result, returned, authored>>

\* No provider request is running or has run.
ProviderAtRest ==
    /\ isWindows = FALSE
    /\ tmFieldType = "Int64"
    /\ hasClock = TRUE
    /\ numBits = 0
    /\ functions = <<>>
    /\ open = <<>>
    /\ cache = [p \in Providers |-> NoFunction]
    /\ frame = Idle
    /\ requests = 0
    /\ last = [op |-> "", rt |-> "", arg |-> ""]
    /\ result = [kind |-> "pending", fn |-> NoFunction]
    /\ returned = [p \in Providers |-> [k \in RequestKeys |-> {}]]
    /\ authored = [p \in Providers |-> [n \in AuthoredNames |-> 0]]

\* IRFunctionEmitter::For(count, body): the index runs from 0 while it is
\* below count.
InLoop(index, count) == index < count

\* buffer[index] = value, recorded as a store.
Store(st, index, value) ==
    [buf |-> [st.buf EXCEPT ![index] = value], writes |-> st.writes \cup {index}]

\* IRFunctionEmitter::MemorySet<ValueType>(buffer, 0, 0, count) with
\* count >= 0: the first count elements are set to zero bytes.
MemorySet(st, count) ==
    [returned |-> TRUE,
     buf |-> [i \in DOMAIN st.buf |-> IF 0 <= i /\ i < count THEN 0 ELSE st.buf[i]],
     writes |-> st.writes \cup {i \in DOMAIN st.buf : 0 <= i /\ i < count}]

\* The same for any count.  A negative count is a byte count of the memset
\* that is out of range: the emitted code either does not survive it, or
\* zeroes the memory from element 0 upwards and goes on.
MemorySetOutcomes(st, count) ==
    IF count >= 0 THEN {MemorySet(st, count)}
    ELSE {[returned |-> FALSE, buf |-> st.buf, writes |-> st.writes],
          [returned |-> TRUE,
           buf |-> [i \in DOMAIN st.buf |-> IF 0 <= i THEN 0 ELSE st.buf[i]],
           writes |-> st.writes \cup {i \in DOMAIN st.buf : 0 <= i}]}

(* EmitGEMVFunction *)

\* The inner loop over columnIndex: accum after the columns from columnIndex on.
RECURSIVE GEMVColumns(_, _, _, _, _, _, _, _)
GEMVColumns(n, A, lda, x, incx, rowIndex, columnIndex, accum) ==
    IF ~InLoop(columnIndex, n) THEN accum
    ELSE LET aIndex == (rowIndex * lda) + columnIndex
             xIndex == columnIndex * incx
             aTimesX == A[aIndex] * x[xIndex]
         IN GEMVColumns(n, A, lda, x, incx, rowIndex, columnIndex + 1, accum + aTimesX)

\* Mutant: accum is not reset at the start of a row.
RECURSIVE GEMVRows_NoReset(_, _, _, _, _, _, _, _, _, _)
GEMVRows_NoReset(m, n, A, lda, x, incx, incy, rowIndex, accum, st) ==
    IF ~InLoop(rowIndex, m) THEN st
    ELSE LET sum == GEMVColumns(n, A, lda, x, incx, rowIndex, 0, accum)
         IN GEMVRows_NoReset(m, n, A, lda, x, incx, incy, rowIndex + 1, sum,
                             Store(st, rowIndex * incy, sum))

\* The outer loop over rowIndex: StoreZero(accum), the inner loop, y[yIndex] = accum.
RECURSIVE GEMVRows(_, _, _, _, _, _, _, _, _)
GEMVRows(m, n, A, lda, x, incx, incy, rowIndex, st) ==
    IF ~InLoop(rowIndex, m) THEN st
    ELSE LET accum == GEMVColumns(n, A, lda, x, incx, rowIndex, 0, 0)
             yIndex == rowIndex * incy
         IN GEMVRows(m, n, A, lda, x, incx, incy, rowIndex + 1, Store(st, yIndex, accum))

EmitGEMVFunction_NoReset(order, transpose, m, n, alpha, A, lda, x, incx, beta, y, incy) ==
    LET st == GEMVRows_NoReset(m, n, A, lda, x, incx, incy, 0, 0, [buf |-> y, writes |-> {}])
    IN [status |-> 0, y |-> st.buf, writes |-> st.writes]

\* Mutant: negative dimensions are rejected with a status of 1.
EmitGEMVFunction_ChecksDimensions(order, transpose, m, n, alpha, A, lda, x, incx, beta, y, incy) ==
    IF m < 0 \/ n < 0 THEN [status |-> 1, y |-> y, writes |-> {}]
    ELSE LET st == GEMVRows(m, n, A, lda, x, incx, incy, 0, [buf |-> y, writes |-> {}])
         IN [status |-> 0, y |-> st.buf, writes |-> st.writes]

\* The emitted noblas_sgemv / noblas_dgemv: the status it returns, y as it
\* leaves it, and the indices of y it stored to.
EmitGEMVFunction(order, transpose, m, n, alpha, A, lda, x, incx, beta, y, incy) ==
    LET st == GEMVRows(m, n, A, lda, x, incx, incy, 0, [buf |-> y, writes |-> {}])
    IN [status |-> 0, y |-> st.buf, writes |-> st.writes]

GEMVInputs ==
    [pc : {"call"}, order : {u.order : u \in Unused}, transpose : {CblasNoTrans, CblasTrans},
     m : Dims, n : Dims, alpha : {u.alpha : u \in Unused},
     A : {Pattern(1), Pattern(3)}, lda : Strides,
     x : {Pattern(2), Pattern(5)}, incx : Strides,
     beta : {u.beta : u \in Unused}, y : {Garbage}, incy : Strides,
     out : {<<>>}]

InitGEMV ==
    /\ ProviderAtRest
    /\ kernel \in {c \in GEMVInputs :
                     \E u \in Unused : u = [order |-> c.order, alpha |-> c.alpha, beta |-> c.beta]}

\* A call of the emitted kernel runs to its return.
RunGEMV ==
    /\ kernel.pc = "call"
    /\ kernel' = [kernel EXCEPT
                    !.pc = "done",
                    !.out = EmitGEMVFunction(kernel.order, kernel.transpose, kernel.m,
                                             kernel.n, kernel.alpha, kernel.A, kernel.lda,
                                             kernel.x, kernel.incx, kernel.beta, kernel.y,
                                             kernel.incy)]
    /\ UNCHANGED provider

SpecGEMV == InitGEMV /\ [][RunGEMV]_vars

(* EmitGEMMFunction *)

\* The loop over j: C[cOffset] = C[cOffset] + A[aOffset] * B[bOffset].
RECURSIVE GEMMColumns(_, _, _, _, _, _, _, _, _, _, _, _)
GEMMColumns(transposeA, transposeB, n, A, lda, B, ldb, ldc, i, k, j, st) ==
    IF ~InLoop(j, n) THEN st
    ELSE LET aOffset == IF transposeA THEN (k * lda) + i ELSE (i * lda) + k
             bOffset == IF transposeB THEN (j * ldb) + k ELSE (k * ldb) + j
             cOffset == (i * ldc) + j
         IN GEMMColumns(transposeA, transposeB, n, A, lda, B, ldb, ldc, i, k, j + 1,
                        Store(st, cOffset, st.buf[cOffset] + (A[aOffset] * B[bOffset])))

\* The loop over k.
RECURSIVE GEMMInner(_, _, _, _, _, _, _, _, _, _, _, _)
GEMMInner(transposeA, transposeB, n, kDim, A, lda, B, ldb, ldc, i, k, st) ==
    IF ~InLoop(k, kDim) THEN st
    ELSE GEMMInner(transposeA, transposeB, n, kDim, A, lda, B, ldb, ldc, i, k + 1,
                   GEMMColumns(transposeA, transposeB, n, A, lda, B, ldb, ldc, i, k, 0, st))

\* The loop over i.
RECURSIVE GEMMRows(_, _, _, _, _, _, _, _, _, _, _, _)
GEMMRows(transposeA, transposeB, m, n, kDim, A, lda, B, ldb, ldc, i, st) ==
    IF ~InLoop(i, m) THEN st
    ELSE GEMMRows(transposeA, transposeB, m, n, kDim, A, lda, B, ldb, ldc, i + 1,
                  GEMMInner(transposeA, transposeB, n, kDim, A, lda, B, ldb, ldc, i, 0, st))

\* The kernel after the output was cleared: the loops, Return(0).
GEMMAccumulate(transposeA, transposeB, m, n, k, A, lda, B, ldb, ldc, cleared) ==
    IF ~cleared.returned THEN [returned |-> FALSE, status |-> 0, C |-> cleared.buf, writes |-> cleared.writes]
    ELSE LET st == GEMMRows(transposeA, transposeB, m, n, k, A, lda, B, ldb, ldc, 0,
                            [buf |-> cleared.buf, writes |-> cleared.writes])
         IN [returned |-> TRUE, status |-> 0, C |-> st.buf, writes |-> st.writes]

\* Mutant: the offsets of the two operands are selected the other way round.
EmitGEMMFunction_SwappedSelect(order, transA, transB, m, n, k, alpha, A, lda, B, ldb, beta, C, ldc) ==
    LET transposeA == transA = CblasTrans
        transposeB == transB = CblasTrans
    IN {GEMMAccumulate(~transposeA, ~transposeB, m, n, k, A, lda, B, ldb, ldc, cleared) :
          cleared \in MemorySetOutcomes([buf |-> C, writes |-> {}], ldc * m)}

\* Mutant: the output is not cleared.
EmitGEMMFunction_NoClear(order, transA, transB, m, n, k, alpha, A, lda, B, ldb, beta, C, ldc) ==
    LET transposeA == transA = CblasTrans
        transposeB == transB = CblasTrans
    IN {GEMMAccumulate(transposeA, transposeB, m, n, k, A, lda, B, ldb, ldc,
                       [returned |-> TRUE, buf |-> C, writes |-> {}])}

\* Mutant: every flag other than CblasNoTrans selects the transposed offset.
EmitGEMMFunction_NotNoTrans(order, transA, transB, m, n, k, alpha, A, lda, B, ldb, beta, C, ldc) ==
    LET transposeA == transA # CblasNoTrans
        transposeB == transB # CblasNoTrans
    IN {GEMMAccumulate(transposeA, transposeB, m, n, k, A, lda, B, ldb, ldc, cleared) :
          cleared \in MemorySetOutcomes([buf |-> C, writes |-> {}], ldc * m)}

\* The emitted noblas_sgemm / noblas_dgemm: the ways a call can end, each
\* with whether it returned, the status returned, C as it is left, and the
\* indices of C stored to.
EmitGEMMFunction(order, transA, transB, m, n, k, alpha, A, lda, B, ldb, beta, C, ldc) ==
    LET transposeA == transA = CblasTrans
        transposeB == transB = CblasTrans
        count == ldc * m
    IN {GEMMAccumulate(transposeA, transposeB, m, n, k, A, lda, B, ldb, ldc, cleared) :
          cleared \in MemorySetOutcomes([buf |-> C, writes |-> {}], count)}

GEMMInputs ==
    [pc : {"call"}, order : {u.order : u \in Unused},
     transposeA : {CblasNoTrans, CblasTrans}, transposeB : {CblasNoTrans, CblasTrans},
     m : Dims, n : Dims, k : Dims, alpha : {u.alpha : u \in Unused},
     A : {Pattern(1)}, lda : Strides, B : {Pattern(3)}, ldb : Strides,
     beta : {u.beta : u \in Unused}, C : {Garbage}, ldc : Strides,
     out : {<<>>}]

InitGEMM ==
    /\ ProviderAtRest
    /\ kernel \in {c \in GEMMInputs :
                     \E u \in Unused : u = [order |-> c.order, alpha |-> c.alpha, beta |-> c.beta]}

\* A call of the emitted kernel runs to its return, or does not survive.
RunGEMM ==
    /\ kernel.pc = "call"
    /\ \E o \in EmitGEMMFunction(kernel.order, kernel.transposeA, kernel.transposeB,
                                 kernel.m, kernel.n, kernel.k, kernel.alpha, kernel.A,
                                 kernel.lda, kernel.B, kernel.ldb, kernel.beta, kernel.C,
                                 kernel.ldc) :
          kernel' = [kernel EXCEPT !.pc = IF o.returned THEN "done" ELSE "crashed",
                                   !.out = o]
    /\ UNCHANGED provider

SpecGEMM == InitGEMM /\ [][RunGEMM]_vars

\* The values a caller may pass for transposeA and transposeB: the two the
\* CBLAS interface names, and others.
TransposeValues == {0, 1, CblasNoTrans, CblasTrans, 113}

\* Calls of the GEMM kernel with any flags, on matrices of positive
\* dimensions stored with leading dimension MaxDim.
InitGEMMFlags ==
    /\ ProviderAtRest
    /\ kernel \in [pc : {"call"}, order : {101},
                   transposeA : TransposeValues, transposeB : TransposeValues,
                   m : 1..MaxDim, n : 1..MaxDim, k : 1..MaxDim, alpha : {1},
                   A : {Pattern(1)}, lda : {MaxDim}, B : {Pattern(3)}, ldb : {MaxDim},
                   beta : {0}, C : {Garbage}, ldc : {MaxDim},
                   out : {<<>>}]

SpecGEMMFlags == InitGEMMFlags /\ [][RunGEMM]_vars

(* Either kernel *)

IsGEMV(c) == "x" \in DOMAIN c
IsGEMM(c) == "B" \in DOMAIN c

InitKernels == InitGEMV \/ InitGEMM

NextKernels ==
    \/ IsGEMV(kernel) /\ RunGEMV
    \/ IsGEMM(kernel) /\ RunGEMM

SpecKernels == InitKernels /\ [][NextKernels]_vars

-----------------------------------------------------------------------------
(* Part 3: the emitted clock_gettime (Windows) and <module>_GetTime, run   *)

\* Largest reading of the performance counter, and of the seconds of the
\* POSIX clock.
MaxCounter == 6

\* Largest frequency of the performance counter, in counts per second.
MaxFrequency == 3

\* Number of calls of <module>_GetTime in one behaviour.
MaxCalls == 2

hundredNanoSeconds == 10000000
divisor == 1000000000

\* The tv_nsec values the POSIX clock_gettime is seen to store.
PosixNanoseconds == {0, 1, 999999, 500000000, 999999999}

\* (double)a / (double)b, truncated to an integer (a >= 0, b > 0).
CastFloatToInt(a, b) == a \div b

\* The body of the emitted clock_gettime: seconds = time / freq;
\* tv_sec = (int)seconds; tv_nsec = (int)((seconds - tv_sec) * 10000000).
WindowsClockBody(time, freq) ==
    LET sec == CastFloatToInt(time, freq)
        remainderTimesFreq == time - (sec * freq)
    IN [sec |-> sec, nsec |-> CastFloatToInt(remainderTimesFreq * hundredNanoSeconds, freq)]

\* The value <module>_GetTime returns, 1000.0 * (sec + nsec / 1000000000.0),
\* as its whole milliseconds and the millionths of a millisecond beyond them.
GetTimeBody(tp) ==
    [ms |-> (1000 * tp.sec) + (tp.nsec \div (divisor \div 1000)),
     frac |-> tp.nsec % (divisor \div 1000)]

\* tp1 is not later than tp2.
NotLater(tp1, tp2) == tp1.sec < tp2.sec \/ (tp1.sec = tp2.sec /\ tp1.nsec <= tp2.nsec)

InitGetTime ==
    /\ isWindows \in BOOLEAN
    /\ tmFieldType \in TimespecFieldTypes
    /\ hasClock = TRUE
    /\ numBits = 0
    /\ functions = <<>>
    /\ open = <<>>
    /\ cache = [p \in Providers |-> NoFunction]
    /\ frame = Idle
    /\ requests = 0
    /\ last = [op |-> "", rt |-> "", arg |-> ""]
    /\ result = [kind |-> "pending", fn |-> NoFunction]
    /\ returned = [p \in Providers |-> [k \in RequestKeys |-> {}]]
    /\ authored = [p \in Providers |-> [n \in AuthoredNames |-> 0]]
    /\ kernel \in [pc : {"call"}, calls : {0},
                   freq : IF isWindows THEN 1..MaxFrequency ELSE {1},
                   counter : {0},
                   tp : {[sec |-> 0, nsec |-> 0]},
                   time : {[ms |-> 0, frac |-> 0]},
                   before : {[ms |-> 0, frac |-> 0]}]

\* <module>_GetTime calls the emitted clock_gettime: the performance counter
\* has not gone back since the last call.
WindowsClockGetTime ==
    /\ isWindows
    /\ kernel.pc = "call"
    /\ kernel.calls < MaxCalls
    /\ \E time \in kernel.counter..MaxCounter :
          kernel' = [kernel EXCEPT !.pc = "loaded", !.counter = time,
                                   !.tp = WindowsClockBody(time, kernel.freq)]
    /\ UNCHANGED provider

\* <module>_GetTime calls the system's clock_gettime: the clock has not gone
\* back since the last call.
PosixClockGetTime ==
    /\ ~isWindows
    /\ kernel.pc = "call"
    /\ kernel.calls < MaxCalls
    /\ \E sec \in 0..MaxCounter, nsec \in PosixNanoseconds :
          /\ NotLater(kernel.tp, [sec |-> sec, nsec |-> nsec])
          /\ kernel' = [kernel EXCEPT !.pc = "loaded", !.tp = [sec |-> sec, nsec |-> nsec]]
    /\ UNCHANGED provider

\* <module>_GetTime loads the two fields and returns.
GetTimeReturn ==
    /\ kernel.pc = "loaded"
    /\ kernel' = [kernel EXCEPT !.pc = "call", !.calls = @ + 1,
                                !.before = kernel.time, !.time = GetTimeBody(kernel.tp)]
    /\ UNCHANGED provider

NextGetTime ==
    \/ WindowsClockGetTime
    \/ PosixClockGetTime
    \/ GetTimeReturn

SpecGetTime == InitGetTime /\ [][NextGetTime]_vars

-----------------------------------------------------------------------------
(* Part 4: the emitted dot product functions, run                          *)

\* Largest count of a call.
MaxCount == 3

\* IRFunctionEmitter::DotProduct, the loop: the accumulator after the
\* elements from i on, and the indices read.
RECURSIVE DotProductLoop(_, _, _, _, _)
DotProductLoop(count, left, right, i, st) ==
    IF ~InLoop(i, count) THEN st
    ELSE DotProductLoop(count, left, right, i + 1,
                        [accum |-> st.accum + (left[i] * right[i]),
                         reads |-> st.reads \cup {i}])

\* IRFunctionEmitter::DotProduct(count, left, right, pResult): the sum is
\* accumulated from 0 and stored into *result.
DotProduct(count, left, right, pResult) ==
    LET st == DotProductLoop(count, left, right, 0, [accum |-> 0, reads |-> {}])
    IN [result |-> [pResult EXCEPT ![0] = st.accum], reads |-> st.reads,
        left |-> left, right |-> right]

\* Mutant: pResult is passed where pRVector belongs, and pRVector as the
\* destination.
EmittedDotProductFunction_SwappedArguments(count, pLVector, pRVector, pResult) ==
    LET r == DotProduct(count, pLVector, pResult, pRVector)
    IN [result |-> pResult, reads |-> r.reads, left |-> pLVector, right |-> r.result]

\* The body of <module>_DotProductFloat / <module>_DotProductInt: the four
\* arguments are handed to DotProduct in their order; Return().
EmittedDotProductFunction(count, pLVector, pRVector, pResult) ==
    DotProduct(count, pLVector, pRVector, pResult)

InitDotProduct ==
    /\ ProviderAtRest
    /\ kernel \in [pc : {"call"},
                   fn : {DotProductFloatFunctionName, DotProductIntFunctionName},
                   count : -1..MaxCount,
                   left : {Pattern(1), Pattern(3), Pattern(4)},
                   right : {Pattern(2), Pattern(5), Pattern(6)},
                   result : {Garbage},
                   out : {<<>>}]

\* A call of the emitted function runs to its return.
RunDotProduct ==
    /\ kernel.pc = "call"
    /\ kernel' = [kernel EXCEPT
                    !.pc = "done",
                    !.out = EmittedDotProductFunction(kernel.count, kernel.left,
                                                      kernel.right, kernel.result)]
    /\ UNCHANGED provider

SpecDotProduct == InitDotProduct /\ [][RunDotProduct]_vars

-----------------------------------------------------------------------------
(* Properties of the provider                                              *)

Bodies(name) == IF name \in DOMAIN functions THEN functions[name].bodies ELSE 0

TimeKey == <<"GetCurrentTimeFunction", "">>
TimeOps == {"GetCurrentTimeFunction", "GetCurrentTime"}

\* A request was issued in this step.
Issued == requests' # requests

\* C1: every request is idempotent on one provider: all calls with the same
\* operation, type and external-binding flag return the identical function,
\* and the provider opens at most one body under any name.
C1_Idempotent ==
    /\ \A p \in Providers, k \in RequestKeys : Cardinality(returned[p][k]) <= 1
    /\ \A p \in Providers, n \in AuthoredNames : authored[p][n] <= 1

\* C2: across providers on one module an existing function is a cache hit:
\* GetTime and the noblas kernels are returned as the same function by every
\* provider, and <module>_GetTime, clock_gettime and the noblas names have at
\* most one body.
C2_CrossInstanceSafe ==
    /\ \A k \in {TimeKey} \cup {<<kn, "noblas">> : kn \in Kernels} :
          Cardinality(UNION {returned[p][k] : p \in Providers}) <= 1
    /\ \A n \in {GetTimeFunctionName, "clock_gettime"} \cup {NoBlasName(kn) : kn \in Kernels} :
          Bodies(n) <= 1

\* C3 as stated, for the operation it names: while GetCurrentTime(function)
\* runs, at most one function body is open.
C3_NoNesting == last.op = "GetCurrentTime" => Len(open) <= 1

IsProviderBody(n) == n # CallerFunctionName

\* C3 as amended: at most one body opened by a provider is open at a time,
\* none is left open when the handler has returned, and the only body that
\* can be open underneath is the caller's own.
C3_ProviderBodiesDoNotNest ==
    /\ Len(SelectSeq(open, IsProviderBody)) <= 1
    /\ frame = Idle => Len(SelectSeq(open, IsProviderBody)) = 0
    /\ \A i \in 2..Len(open) : IsProviderBody(open[i])

\* GetCurrentTime(function) on first use: <module>_GetTime is open inside the
\* caller's body.
C3_Witness ==
    /\ last.op = "GetCurrentTime"
    /\ open = <<CallerFunctionName, GetTimeFunctionName>>

\* The type clock_gettime has in the module after the declarations of the
\* POSIX-like path, for a time structure whose first field has type tm.
PosixDeclaredClockType(tm) ==
    DeclareFunction(DeclareFunction(<<>>, "clock_gettime", PreDeclaredClockType),
                    "clock_gettime", PosixClockType(tm))["clock_gettime"].sig

\* C4: on a POSIX-like target clock_gettime never has a body; on a
\* Windows-like target it has exactly one body once it is resolved, of the
\* type the POSIX-like path declares, for either layout of the time structure.
C4_TimingStrategy ==
    "clock_gettime" \in DOMAIN functions =>
        IF isWindows
        THEN /\ Bodies("clock_gettime") = 1
             /\ functions["clock_gettime"].sig = PosixDeclaredClockType(tmFieldType)
        ELSE Bodies("clock_gettime") = 0

\* C5: a provider opens the body of <module>_GetTime at most once, a filled
\* cache is the function it opened, every call returned the cached function,
\* and a call on a filled cache returns it and leaves module and cache alone.
C5_SynthesizedOncePerProvider ==
    /\ [](\A p \in Providers :
            /\ authored[p][GetTimeFunctionName] <= 1
            /\ returned[p][TimeKey] \subseteq {cache[p]} \ {NoFunction}
            /\ cache[p] # NoFunction =>
                  /\ authored[p][GetTimeFunctionName] = 1
                  /\ cache[p].name = GetTimeFunctionName)
    /\ [][(Issued /\ last'.op \in TimeOps /\ cache[last'.rt] # NoFunction) =>
            /\ functions' = functions
            /\ cache' = cache
            /\ open' = open
            /\ frame' = Idle
            /\ result'.fn = cache[last'.rt]]_vars

\* Two calls on one provider, the second answered from its cache.
C5_Witness ==
    /\ requests = 2
    /\ frame = Idle
    /\ last.op = "GetCurrentTimeFunction"
    /\ result = [kind |-> "function", fn |-> cache[last.rt]]
    /\ cache[last.rt] # NoFunction
    /\ \A p \in Providers \ {last.rt} : cache[p] = NoFunction
    /\ Bodies(GetTimeFunctionName) = 1
    /\ DOMAIN functions \subseteq {GetTimeFunctionName, "clock_gettime",
                                  "QueryPerformanceCounter", "QueryPerformanceFrequency"}

\* C6: when ResolveCurrentTimeFunction yields no function the request fails:
\* <module>_GetTime is not opened, the cache stays empty, no empty handle is
\* ever returned, and a later call on the empty cache resolves again.
C6_FailsWithoutClock ==
    /\ [](/\ \A p \in Providers : NoFunction \notin returned[p][TimeKey]
          /\ (last.op \in TimeOps /\ result.kind = "functionNotFound") =>
                /\ frame = Idle
                /\ cache[last.rt] = NoFunction
                /\ authored[last.rt][GetTimeFunctionName] = 0)
    /\ [][(frame.pc = "resolved" /\ frame.fn = NoFunction) =>
            /\ result'.kind = "functionNotFound"
            /\ functions' = functions
            /\ cache' = cache
            /\ open' = open]_vars
    /\ [][(Issued /\ last'.op \in TimeOps /\ cache[last'.rt] = NoFunction) =>
            frame'.pc \in {"resolved", "clock_body"}]_vars

\* The second request of a provider failed like its first.
C6_Witness ==
    /\ requests = 2
    /\ last.op = "GetCurrentTimeFunction"
    /\ result.kind = "functionNotFound"
    /\ functions = <<>>

\* C7: GetTanhFunction fails for every type but Float and Double and then
\* leaves the module alone; tanh and tanhf exist only as declarations made
\* for Double and Float, of type (type) -> type, and are what is returned.
C7_TanhTypes ==
    /\ [](/\ last.op = "GetTanhFunction" =>
               /\ frame = Idle
               /\ last.arg \notin {"Float", "Double"} => result.kind = "functionNotFound"
               /\ last.arg = "Double" => result = [kind |-> "function", fn |-> [name |-> "tanh", body |-> 0]]
               /\ last.arg = "Float" => result = [kind |-> "function", fn |-> [name |-> "tanhf", body |-> 0]]
          /\ "tanh" \in DOMAIN functions =>
               /\ functions["tanh"] = [sig |-> FunctionType("Double", <<"Double">>), bodies |-> 0]
               /\ \E p \in Providers : returned[p][<<"GetTanhFunction", "Double">>] # {}
          /\ "tanhf" \in DOMAIN functions =>
               /\ functions["tanhf"] = [sig |-> FunctionType("Float", <<"Float">>), bodies |-> 0]
               /\ \E p \in Providers : returned[p][<<"GetTanhFunction", "Float">>] # {}
          /\ \A p \in Providers, t \in VariableTypes \ {"Float", "Double"} :
               returned[p][<<"GetTanhFunction", t>>] = {})
    /\ [][(Issued /\ last'.op = "GetTanhFunction" /\ last'.arg \notin {"Float", "Double"}) =>
            /\ functions' = functions
            /\ returned' = returned]_vars

\* tanhf is declared, and a later request for an integer type failed.
C7_Witness ==
    /\ last = [op |-> "GetTanhFunction", rt |-> "r1", arg |-> "Int32"]
    /\ result.kind = "functionNotFound"
    /\ DOMAIN functions = {"tanhf"}

\* C11: a request with useBlas = true only declares the cblas_ symbol of its
\* operation and returns that declaration; no cblas_ symbol ever has a body;
\* a request with useBlas = false returns the noblas_ kernel of its operation,
\* with a body, whatever cblas_ declarations exist, and a request with
\* useBlas = true never returns a noblas_ kernel.
C11_ExternalBinding ==
    /\ [](/\ \A k \in Kernels :
                BlasName(k) \in DOMAIN functions =>
                    functions[BlasName(k)] = [sig |-> KernelType(k), bodies |-> 0]
          /\ \A p \in Providers, k \in Kernels :
                /\ returned[p][<<k, "blas">>] \subseteq {[name |-> BlasName(k), body |-> 0]}
                /\ \A h \in returned[p][<<k, "noblas">>] :
                      h.name = NoBlasName(k) /\ h.body >= 1)
    /\ [][(Issued /\ last'.op \in Kernels /\ last'.arg = "blas") =>
            /\ open' = open
            /\ authored' = authored
            /\ frame' = Idle
            /\ result' = [kind |-> "function",
                          fn |-> [name |-> BlasName(last'.op), body |-> 0]]
            /\ DOMAIN functions' = DOMAIN functions \cup {BlasName(last'.op)}
            /\ \A n \in DOMAIN functions : functions'[n] = functions[n]]_vars

\* cblas_sgemm was declared, and a later request without external binding
\* authored and returned noblas_sgemm.
C11_Witness ==
    /\ last.op = "sgemm" /\ last.arg = "noblas"
    /\ result = [kind |-> "function", fn |-> [name |-> "noblas_sgemm", body |-> 1]]
    /\ "cblas_sgemm" \in DOMAIN functions
    /\ Bodies("cblas_sgemm") = 0

\* The symbol names the specification gives, by request key.
C12_Name(key) ==
    CASE key[1] = "GetDotProductFloatFunction" -> ModuleName \o "_DotProductFloat"
      [] key[1] = "GetDotProductIntFunction" -> ModuleName \o "_DotProductInt"
      [] key[1] = "GetCurrentTimeFunction" -> ModuleName \o "_GetTime"
      [] key[1] = "GetTanhFunction" -> IF key[2] = "Double" THEN "tanh" ELSE "tanhf"
      [] key = <<"sgemv", "noblas">> -> "noblas_sgemv"
      [] key = <<"dgemv", "noblas">> -> "noblas_dgemv"
      [] key = <<"sgemm", "noblas">> -> "noblas_sgemm"
      [] key = <<"dgemm", "noblas">> -> "noblas_dgemm"
      [] key = <<"sgemv", "blas">> -> "cblas_sgemv"
      [] key = <<"dgemv", "blas">> -> "cblas_dgemv"
      [] key = <<"sgemm", "blas">> -> "cblas_sgemm"
      [] key = <<"dgemm", "blas">> -> "cblas_dgemm"
      [] key[1] = "GetOpenBLASGetNumThreadsFunction" -> "openblas_get_num_threads"
      [] key[1] = "GetOpenBLASSetNumThreadsFunction" -> "openblas_set_num_threads"

\* The keys whose requests return a function.
C12_Keys == RequestKeys \ {<<"GetTanhFunction", t>> : t \in VariableTypes \ {"Float", "Double"}}

\* C12: whatever was requested before and by whichever provider, the function
\* a request returns carries the one name its key stands for (noblas_sgemv,
\* ..., <module>_DotProductFloat, <module>_DotProductInt, <module>_GetTime),
\* and the names of different keys are different.
C12_NamingDeterminism ==
    /\ \A p \in Providers, key \in RequestKeys :
          /\ \A h \in returned[p][key] : h.name = C12_Name(key)
          /\ returned[p][key] # {} => key \in C12_Keys
    /\ \A k1 \in C12_Keys, k2 \in C12_Keys : k1 # k2 => C12_Name(k1) # C12_Name(k2)
    /\ (frame = Idle /\ result.kind \in {"function", "value"}) =>
          result.fn.name = C12_Name(KeyOf(last))

\* <module>_GetTime was returned after <module>_DotProductInt had been emitted.
C12_Witness ==
    /\ requests = 2
    /\ last.op = "GetCurrentTimeFunction"
    /\ result.kind = "function"
    /\ result.fn.name = "ELL_GetTime"
    /\ "ELL_DotProductInt" \in DOMAIN functions

\* C13: for every target descriptor, openblas_get_num_threads is declared
\* as () -> Int32 and openblas_set_num_threads as (Int32) -> void.
C13_ThreadFunctionTypes ==
    /\ "openblas_get_num_threads" \in DOMAIN functions =>
          functions["openblas_get_num_threads"].sig = FunctionType("Int32", <<>>)
    /\ "openblas_set_num_threads" \in DOMAIN functions =>
          functions["openblas_set_num_threads"].sig = FunctionType("Void", <<"Int32">>)

\* What holds instead: the integer of the two declarations is the native
\* integer of the target, Int32 only for a width of 0 or 32, and neither
\* symbol has a body.
C13_ThreadFunctionsUseNativeInt ==
    LET native == IF numBits = 0 THEN "Int32" ELSE "Int" \o ToString(numBits) IN
    /\ "openblas_get_num_threads" \in DOMAIN functions =>
          functions["openblas_get_num_threads"] = [sig |-> FunctionType(native, <<>>), bodies |-> 0]
    /\ "openblas_set_num_threads" \in DOMAIN functions =>
          functions["openblas_set_num_threads"] = [sig |-> FunctionType("Void", <<native>>), bodies |-> 0]
    /\ numBits \in {0, 32} => C13_ThreadFunctionTypes

\* f[0] + ... + f[n-1] (0 when n <= 0).
SumFn(f, n) ==
    LET S[t \in 0..(IF n > 0 THEN n ELSE 0)] == IF t = 0 THEN 0 ELSE S[t - 1] + f[t - 1]
    IN S[IF n > 0 THEN n ELSE 0]

-----------------------------------------------------------------------------
(* Properties of the emitted time functions                                *)

\* a is not more than b, both as whole and millionths of milliseconds.
TimeLeq(a, b) == a.ms < b.ms \/ (a.ms = b.ms /\ a.frac <= b.frac)

\* 1000 * counter / frequency as whole and millionths of milliseconds.
TrueMilliseconds(time, freq) ==
    [ms |-> (1000 * time) \div freq,
     frac |-> (((1000 * time) % freq) * 1000000) \div freq]

\* b - a in millionths of a millisecond.
TimeDifference(a, b) == ((b.ms - a.ms) * 1000000) + (b.frac - a.frac)

\* C14: GetTime returns 1000 * (seconds + subsecond / 1e9) of the structure
\* the clock-read function filled; on the Windows-like path this is
\* 1000 * counter / frequency up to the truncation of the subsecond field
\* (a ten-millionth of a second, and the millionth of a millisecond the
\* reference is cut to); later readings never give a smaller value.
C14_GetTimeMilliseconds ==
    (kernel.pc = "call" /\ kernel.calls >= 1) =>
        /\ kernel.time = [ms |-> (1000 * kernel.tp.sec) + (kernel.tp.nsec \div 1000000),
                          frac |-> kernel.tp.nsec % 1000000]
        /\ isWindows =>
              TimeDifference(kernel.time, TrueMilliseconds(kernel.counter, kernel.freq))
                  \in 0..100
        /\ TimeLeq(kernel.before, kernel.time)

\* What holds instead on the Windows-like path: the whole seconds are right
\* and the fraction of the second comes out a hundred times too small.
C14_WindowsFractionScaled ==
    (isWindows /\ kernel.pc = "call" /\ kernel.calls >= 1) =>
        LET exact == TrueMilliseconds(kernel.counter, kernel.freq)
            whole == 1000 * (kernel.counter \div kernel.freq)
        IN /\ kernel.time.ms \div 1000 = exact.ms \div 1000
           /\ TimeDifference([ms |-> whole, frac |-> 0], exact)
                - (100 * TimeDifference([ms |-> whole, frac |-> 0], kernel.time)) \in 0..100
           /\ TimeLeq(kernel.before, kernel.time)

-----------------------------------------------------------------------------
(* Properties of the emitted dot product functions                         *)

\* C15: the two dot product functions have the signature (count: Int32,
\* left, right, result) -> void; a call stores the sum over i in [0, count)
\* of left[i] * right[i] into *result, reads only those elements and stores
\* nothing else; for count <= 0 it reads nothing and *result is 0.
C15_DotProductBody ==
    /\ DotProductType("DoublePointer") =
          [ret |-> "Void", args |-> <<"Int32", "DoublePointer", "DoublePointer", "DoublePointer">>]
    /\ DotProductType("Int32Pointer") =
          [ret |-> "Void", args |-> <<"Int32", "Int32Pointer", "Int32Pointer", "Int32Pointer">>]
    /\ kernel.pc = "done" =>
          /\ kernel.out.result[0] =
                SumFn([i \in 0..(kernel.count - 1) |-> kernel.left[i] * kernel.right[i]],
                      kernel.count)
          /\ kernel.out.reads = 0..(kernel.count - 1)
          /\ \A i \in Indices \ {0} : kernel.out.result[i] = kernel.result[i]
          /\ kernel.out.left = kernel.left /\ kernel.out.right = kernel.right
          /\ kernel.count <= 0 => kernel.out.reads = {} /\ kernel.out.result[0] = 0

\* A call with three elements whose sum of products is not zero.
C15_Witness ==
    /\ kernel.pc = "done"
    /\ kernel.count = 3
    /\ kernel.fn = DotProductIntFunctionName
    /\ kernel.out.result[0] # 0
    /\ kernel.out.result[0] # kernel.left[0] * kernel.right[0]

-----------------------------------------------------------------------------
(* Properties of the emitted kernels                                       *)

\* sum over j in [0,n) of A[i*lda + j] * x[j*incx]
GEMVRowSum(c, i) ==
    SumFn([j \in 0..(c.n - 1) |-> c.A[(i * c.lda) + j] * c.x[j * c.incx]], c.n)

\* The product of the m x n matrix stored in A by rows with the vector x.
MatVec(c) ==
    LET M == [i \in 0..(c.m - 1), j \in 0..(c.n - 1) |-> c.A[(i * c.n) + j]]
    IN [i \in 0..(c.m - 1) |-> SumFn([j \in 0..(c.n - 1) |-> M[i, j] * c.x[j]], c.n)]

\* The run's y is the y of every run that differs in the unused parameters.
GEMVIgnoresUnused(c) ==
    \A u \in Unused, t \in {CblasNoTrans, CblasTrans} :
        EmitGEMVFunction(u.order, t, c.m, c.n, u.alpha, c.A, c.lda, c.x, c.incx,
                         u.beta, c.y, c.incy).y = c.out.y

\* C8 as stated: after the GEMV kernel, y[i*incy] is row i's sum for every i
\* in [0,m), for all strides; with lda = n and unit increments y is A.x; the
\* result does not depend on order, transpose, alpha, beta.
C8_GEMVResult ==
    kernel.pc = "done" =>
        /\ \A i \in 0..(kernel.m - 1) :
              kernel.out.y[i * kernel.incy] = GEMVRowSum(kernel, i)
        /\ (kernel.lda = kernel.n /\ kernel.incx = 1 /\ kernel.incy = 1) =>
              \A i \in 0..(kernel.m - 1) : kernel.out.y[i] = MatVec(kernel)[i]
        /\ GEMVIgnoresUnused(kernel)

\* C8 as amended: the same for incy # 0; with incy = 0 every row is stored
\* to y[0], which is left holding the sum of the last row.
C8_GEMVResultNonzeroIncy ==
    kernel.pc = "done" =>
        /\ kernel.incy # 0 =>
              \A i \in 0..(kernel.m - 1) :
                  kernel.out.y[i * kernel.incy] = GEMVRowSum(kernel, i)
        /\ (kernel.incy = 0 /\ kernel.m >= 1) =>
              kernel.out.y[0] = GEMVRowSum(kernel, kernel.m - 1)
        /\ (kernel.lda = kernel.n /\ kernel.incx = 1 /\ kernel.incy = 1) =>
              \A i \in 0..(kernel.m - 1) : kernel.out.y[i] = MatVec(kernel)[i]
        /\ GEMVIgnoresUnused(kernel)

\* A 2 x 2 product with alpha = 2, beta = 1 and the transpose flag set, whose
\* two rows have different sums.
C8_Witness ==
    /\ kernel.pc = "done"
    /\ kernel.m = 2 /\ kernel.n = 2 /\ kernel.lda = 2
    /\ kernel.incx = 1 /\ kernel.incy = 1
    /\ kernel.alpha = 2 /\ kernel.beta = 1 /\ kernel.transpose = CblasTrans
    /\ kernel.out.y[0] # kernel.out.y[1]
    /\ kernel.out.y[1] # 0

\* op(A) and op(B): the operands as the transpose flags say to read them.
OpA(c) ==
    [i \in 0..(c.m - 1), kk \in 0..(c.k - 1) |->
        IF c.transposeA = CblasTrans THEN c.A[(kk * c.lda) + i] ELSE c.A[(i * c.lda) + kk]]

OpB(c) ==
    [kk \in 0..(c.k - 1), j \in 0..(c.n - 1) |->
        IF c.transposeB = CblasTrans THEN c.B[(j * c.ldb) + kk] ELSE c.B[(kk * c.ldb) + j]]

\* The reference product op(A) . op(B), an m x n matrix.
MatMul(c) ==
    [i \in 0..(c.m - 1), j \in 0..(c.n - 1) |->
        SumFn([kk \in 0..(c.k - 1) |-> OpA(c)[i, kk] * OpB(c)[kk, j]], c.k)]

\* C9 as stated: after the GEMM kernel, C[i*ldc + j] is element (i, j) of
\* op(A) . op(B), for all dimensions and leading dimensions.
C9_GEMMResult ==
    kernel.pc = "done" =>
        \A i \in 0..(kernel.m - 1), j \in 0..(kernel.n - 1) :
            kernel.out.C[(i * kernel.ldc) + j] = MatMul(kernel)[i, j]

\* C9 as amended: the same when ldc >= n, so that no two elements of the
\* result share an element of C and all of them are cleared first.
C9_GEMMResultRowsApart ==
    (kernel.pc = "done" /\ kernel.ldc >= kernel.n) =>
        \A i \in 0..(kernel.m - 1), j \in 0..(kernel.n - 1) :
            kernel.out.C[(i * kernel.ldc) + j] = MatMul(kernel)[i, j]

\* A 2 x 2 x 2 product with A transposed that has a nonzero element.
C9_Witness ==
    /\ kernel.pc = "done"
    /\ kernel.transposeA = CblasTrans /\ kernel.transposeB = CblasNoTrans
    /\ kernel.m = 2 /\ kernel.n = 2 /\ kernel.k = 2
    /\ kernel.lda = 2 /\ kernel.ldb = 2 /\ kernel.ldc = 2
    /\ kernel.out.C[3] # 0

\* The buffers that differ from C at most in the elements [0, m*ldc).
SameOutsideCleared(c) ==
    {[i \in Indices |-> IF 0 <= i /\ i < c.m * c.ldc THEN b[i] ELSE c.C[i]] :
        b \in {Garbage, Pattern(2), Pattern(4)}}

\* Every run that differs in order, alpha, beta and in the initial contents
\* of C[0 .. m*ldc) ends as this run did.
GEMMIgnoresUnused(c) ==
    \A u \in Unused, C0 \in SameOutsideCleared(c) :
        EmitGEMMFunction(u.order, c.transposeA, c.transposeB, c.m, c.n, c.k, u.alpha,
                         c.A, c.lda, c.B, c.ldb, u.beta, C0, c.ldc) = {c.out}

\* The elements of a row from column n (from column 0 when n < 0) up to ldc.
RowPaddingIsZero(c) ==
    \A i \in 0..(c.m - 1), j \in (IF c.n > 0 THEN c.n ELSE 0)..(c.ldc - 1) :
        c.out.C[(i * c.ldc) + j] = 0

\* C10 as stated: the result does not depend on alpha, beta, order or the
\* previous contents of C[0 .. m*ldc); the row padding is zero; nothing at
\* index m*ldc or above is written.
C10_GEMMClearsOutput ==
    kernel.pc = "done" =>
        /\ GEMMIgnoresUnused(kernel)
        /\ RowPaddingIsZero(kernel)
        /\ \A w \in kernel.out.writes : w < kernel.m * kernel.ldc

\* C10 as amended: the same when the number of elements to clear, m*ldc, is
\* not negative; and nothing at index m*ldc or above is written when also
\* ldc >= n.
C10_GEMMClearsOutputInRange ==
    (kernel.pc = "done" /\ kernel.m * kernel.ldc >= 0) =>
        /\ GEMMIgnoresUnused(kernel)
        /\ RowPaddingIsZero(kernel)
        /\ kernel.ldc >= kernel.n => \A w \in kernel.out.writes : w < kernel.m * kernel.ldc

\* A run over a C full of other values, with one element of padding per row,
\* alpha = 2 and beta = 1.
C10_Witness ==
    /\ kernel.pc = "done"
    /\ kernel.C = Garbage
    /\ kernel.alpha = 2 /\ kernel.beta = 1
    /\ kernel.m = 2 /\ kernel.n = 1 /\ kernel.k = 2 /\ kernel.ldc = 2
    /\ kernel.lda = 2 /\ kernel.ldb = 1
    /\ kernel.out.C[0] # 0
    /\ kernel.out.C[1] = 0

\* The ways the call c of a kernel can end.
KernelOutcomes(c) ==
    IF IsGEMV(c)
    THEN {[returned |-> TRUE,
           status |-> EmitGEMVFunction(c.order, c.transpose, c.m, c.n, c.alpha, c.A, c.lda,
                                       c.x, c.incx, c.beta, c.y, c.incy).status]}
    ELSE {[returned |-> o.returned, status |-> o.status] :
            o \in EmitGEMMFunction(c.order, c.transposeA, c.transposeB, c.m, c.n, c.k,
                                   c.alpha, c.A, c.lda, c.B, c.ldb, c.beta, c.C, c.ldc)}

\* C16 as stated: each call of either kernel returns, with status 0,
\* whatever the dimensions and strides; when m, n or k is zero or negative
\* GEMV stores nothing to y.
C16_KernelsReturnZero ==
    /\ kernel.pc = "call" =>
          KernelOutcomes(kernel) = {[returned |-> TRUE, status |-> 0]}
    /\ kernel.pc # "crashed"
    /\ kernel.pc = "done" =>
          /\ kernel.out.status = 0
          /\ (IsGEMV(kernel) /\ (kernel.m <= 0 \/ kernel.n <= 0)) =>
                kernel.out.writes = {} /\ kernel.out.y = kernel.y

\* C16 as amended: GEMV always returns, and GEMM does when m*ldc, the
\* number of elements it clears, is not negative; whenever a kernel returns
\* the status is 0; a loop over a zero or negative count stores nothing, so
\* GEMV leaves y alone for m <= 0 and stores 0 to each y[i*incy] for
\* n <= 0 < m, and GEMM only clears C for m, n or k <= 0.
C16_KernelsReturnZeroInRange ==
    /\ kernel.pc = "call" =>
          /\ \A o \in KernelOutcomes(kernel) :
                IF o.returned THEN o.status = 0
                ELSE IsGEMM(kernel) /\ kernel.m * kernel.ldc < 0
          /\ (IsGEMV(kernel) \/ kernel.m * kernel.ldc >= 0) =>
                KernelOutcomes(kernel) = {[returned |-> TRUE, status |-> 0]}
    /\ kernel.pc = "crashed" => IsGEMM(kernel) /\ kernel.m * kernel.ldc < 0
    /\ kernel.pc = "done" =>
          /\ kernel.out.status = 0
          /\ (IsGEMV(kernel) /\ kernel.m <= 0) =>
                kernel.out.writes = {} /\ kernel.out.y = kernel.y
          /\ (IsGEMV(kernel) /\ kernel.n <= 0 /\ kernel.m > 0) =>
                /\ kernel.out.writes = {i * kernel.incy : i \in 0..(kernel.m - 1)}
                /\ \A i \in Indices :
                      kernel.out.y[i] = IF i \in kernel.out.writes THEN 0 ELSE kernel.y[i]
          /\ (IsGEMM(kernel) /\ kernel.m * kernel.ldc >= 0
                /\ (kernel.m <= 0 \/ kernel.n <= 0 \/ kernel.k <= 0)) =>
                \A i \in Indices :
                    kernel.out.C[i] = IF 0 <= i /\ i < kernel.m * kernel.ldc THEN 0
                                      ELSE kernel.C[i]

\* A GEMM call with a negative k returned 0 and left a cleared 2 x 2 output.
C16_Witness ==
    /\ IsGEMM(kernel)
    /\ kernel.pc = "done"
    /\ kernel.k = -1 /\ kernel.m = 2 /\ kernel.n = 2 /\ kernel.ldc = 2
    /\ kernel.out.status = 0
    /\ \A i \in 0..3 : kernel.out.C[i] = 0

\* The product with the operands read at the offsets given by the two
\* booleans ta and tb.
ProductAt(c, ta, tb) ==
    [i \in 0..(c.m - 1), j \in 0..(c.n - 1) |->
        SumFn([kk \in 0..(c.k - 1) |->
                  c.A[IF ta THEN (kk * c.lda) + i ELSE (i * c.lda) + kk]
                  * c.B[IF tb THEN (j * c.ldb) + kk ELSE (kk * c.ldb) + j]], c.k)]

\* C17: the GEMM kernel reads A at k*lda + i exactly when transposeA is 112
\* and at i*lda + k for every other value, and B at j*ldb + k exactly when
\* transposeB is 112 and at k*ldb + j for every other value, each flag on
\* its own.
C17_TransposeOnly112 ==
    kernel.pc = "done" =>
        \A i \in 0..(kernel.m - 1), j \in 0..(kernel.n - 1) :
            kernel.out.C[(i * kernel.ldc) + j] =
                ProductAt(kernel, kernel.transposeA = 112, kernel.transposeB = 112)[i, j]

\* A 2 x 2 x 2 call with transposeA = 113 and transposeB = 112 whose result
\* is not the one a transposed A would give, nor the one a B read as it is
\* stored would give.
C17_Witness ==
    /\ kernel.pc = "done"
    /\ kernel.transposeA = 113 /\ kernel.transposeB = 112
    /\ kernel.m = 2 /\ kernel.n = 2 /\ kernel.k = 2
    /\ \E i \in 0..1, j \in 0..1 :
          kernel.out.C[(i * kernel.ldc) + j] # ProductAt(kernel, TRUE, TRUE)[i, j]
    /\ \E i \in 0..1, j \in 0..1 :
          kernel.out.C[(i * kernel.ldc) + j] # ProductAt(kernel, FALSE, FALSE)[i, j]

====
